---- MODULE Spec2Model ----
(***************************************************************************)
(* Model of the techiesproject.com static-site pipeline:                   *)
(*   extract.js  (Extractor)  legacy HTML  -> people.json, categories.json *)
(*   build.js    (Renderer)   Store + templates -> _output/                *)
(*   verify.js   (Verifier)   Store + _output/  -> exit status             *)
(*                                                                         *)
(* Text is a sequence of tokens.  A placeholder {{KEY}} is the three       *)
(* tokens "{{", KEY, "}}", so that a placeholder can also be assembled    *)
(* from pieces that come from different values.                            *)
(***************************************************************************)
EXTENDS Integers, Sequences, FiniteSets, TLC

\* ------------------------------------------------------------------------
\* Text helpers (String.prototype.indexOf / includes / split+join)
\* ------------------------------------------------------------------------

\* s.includes(pat)
Includes(s, pat) ==
  \E i \in 1..(Len(s) + 1) :
     /\ i + Len(pat) - 1 <= Len(s)
     /\ SubSeq(s, i, i + Len(pat) - 1) = pat

\* s.indexOf(pat, from), 1-based; 0 when there is no occurrence
IndexOf(s, pat, from) ==
  LET hits == { i \in from..(Len(s) - Len(pat) + 1) : SubSeq(s, i, i + Len(pat) - 1) = pat }
  IN IF hits = {} THEN 0 ELSE CHOOSE i \in hits : \A j \in hits : i <= j

RECURSIVE JoinFrom(_, _, _, _)
\* the pieces of s.split(pat) from position pos on, joined with val
JoinFrom(s, pat, val, pos) ==
  LET m == IndexOf(s, pat, pos)
  IN IF m = 0 THEN SubSeq(s, pos, Len(s))
     ELSE SubSeq(s, pos, m - 1) \o val \o JoinFrom(s, pat, val, m + Len(pat))

\* s.split(pat).join(val): every non-overlapping occurrence, left to right
SplitJoin(s, pat, val) == JoinFrom(s, pat, val, 1)

\* `{{${key}}}`
Placeholder(key) == <<"{{", key, "}}">>

\* one iteration of the for-loop of render(): entries[i] = <<key, value>>
RenderKey(result, entry) == SplitJoin(result, Placeholder(entry[1]), entry[2])

RECURSIVE RenderFrom(_, _, _)
RenderFrom(result, entries, i) ==
  IF i > Len(entries) THEN result
  ELSE RenderFrom(RenderKey(result, entries[i]), entries, i + 1)

\* render(template, vars); vars as Object.entries(vars), in insertion order
render(template, entries) == RenderFrom(template, entries, 1)

\* Reference semantics of a single-pass substitution: the template is
\* scanned once and substituted text is never looked at again.
RECURSIVE SubstOnce(_, _)
SubstOnce(template, entries) ==
  IF template = <<>> THEN <<>>
  ELSE LET hit == { k \in 1..Len(entries) :
                      /\ Len(template) >= 3
                      /\ SubSeq(template, 1, 3) = Placeholder(entries[k][1]) }
       IN IF hit # {}
          THEN LET k == CHOOSE x \in hit : \A y \in hit : x <= y
               IN entries[k][2] \o SubstOnce(SubSeq(template, 4, Len(template)), entries)
          ELSE <<Head(template)>> \o SubstOnce(Tail(template), entries)

\* ------------------------------------------------------------------------
\* Bounds of the model
\* ------------------------------------------------------------------------
MaxPeople == 2      \* PersonRecords in the Store
MaxPostIds == 2     \* ids in one CategoryRecord
MaxCards == 2       \* fragments of the listing document

\* ------------------------------------------------------------------------
\* The Intermediate Store (src/data/people.json, src/data/categories.json)
\* ------------------------------------------------------------------------
Slugs == {"ada", "bob"}
PostIds == {42, 99}
RolePlaceholder == Placeholder("ROLE")

\* `${n}` for a number
NumText(n) == ToString(n)

Rep(tok, n) == [i \in 1..n |-> tok]

\* a PersonRecord as extract.js writes it; text fields are token sequences,
\* prev / next are <<>> for null
Person(slug, post_id, name) ==
  [ slug |-> slug,
    post_id |-> post_id,
    name |-> name,
    hero_image |-> <<IF slug = "ada" THEN "ada-hero.jpg" ELSE "bob-hero.jpg">>,
    thumbnail |-> <<IF slug = "ada" THEN "ada-thumb.jpg" ELSE "bob-thumb.jpg">>,
    years_in_tech |-> <<"5 years">>,
    role |-> <<"Engineer">>,
    location |-> <<"SF">>,
    interview_date |-> <<"Jan 2016">>,
    abstract |-> <<"<p>", "abstract of", slug, "</p>">>,
    personal_links |-> IF slug = "ada"
                       THEN << [url |-> "http://ada.example", label |-> "site"] >>
                       ELSE << >>,
    interview_content |-> IF slug = "bob" THEN Rep("word", 101) \o <<"wp-content/">>
                          ELSE <<"<p>", "interview", "</p>">>,
    prev |-> IF slug = "bob" THEN << [name |-> <<"Ada">>, slug |-> "ada"] >> ELSE << >>,
    next |-> IF slug = "ada" THEN << [name |-> <<"Bob">>, slug |-> "bob"] >> ELSE << >>,
    title |-> <<"Engineer at", slug>> ]

PersonRecords ==
  { Person("ada", 42, <<"Ada">>), Person("ada", 42, RolePlaceholder),
    Person("bob", 99, <<"Bob">>), Person("bob", 42, <<"Bob">>) }

SeqsUpTo(S, n) == UNION { [1..k -> S] : k \in 0..n }

\* a CategoryRecord as extract.js writes it
PostIdLists == SeqsUpTo(PostIds, MaxPostIds)
Category(slug, post_ids) ==
  [ slug |-> slug, display_name |-> <<"Category", slug>>, post_ids |-> post_ids ]

\* ------------------------------------------------------------------------
\* Templates (src/templates/*.html): inputs of the Renderer
\* ------------------------------------------------------------------------
TemplateNames == { "partials/head.html", "partials/nav.html", "partials/footer.html",
                   "partials/scripts.html", "person.html", "homepage.html",
                   "category.html", "about.html", "submit.html" }

Frame(body) ==
  Placeholder("HEAD") \o Placeholder("NAV") \o body
    \o Placeholder("FOOTER") \o Placeholder("SCRIPTS")

PersonBody ==
  <<"<h1>">> \o Placeholder("NAME")
    \o <<"</h1>", "<img ", "src=\"", "/d1lhy388c2xgxf/portraits/">>
    \o Placeholder("HERO_IMAGE") \o <<"\"", ">", "<img ", "src=\"", "/d1lhy388c2xgxf/thumbnails/">>
    \o Placeholder("THUMBNAIL") \o <<"\"", ">">>
    \o Placeholder("YEARS_IN_TECH") \o Placeholder("ROLE") \o Placeholder("LOCATION")
    \o Placeholder("INTERVIEW_DATE") \o Placeholder("ABSTRACT")
    \o Placeholder("PERSONAL_LINKS") \o Placeholder("INTERVIEW_CONTENT")

\* a person template without the NAME placeholder
PersonBodyNoName ==
  <<"<img ", "src=\"", "/d1lhy388c2xgxf/portraits/">>
    \o Placeholder("HERO_IMAGE") \o <<"\"", ">", "<img ", "src=\"", "/d1lhy388c2xgxf/thumbnails/">>
    \o Placeholder("THUMBNAIL") \o <<"\"", ">">> \o Placeholder("ROLE")
    \o Placeholder("INTERVIEW_CONTENT")

TemplateFiles(personBody) ==
  [ n \in TemplateNames |->
      CASE n = "partials/head.html" ->
             <<"<head>", "<link ", "href=\"", "/assets/css/", "techies.css", "\"", ">">>
               \o Placeholder("HEAD_EXTRA") \o <<"</head>">>
        [] n = "partials/nav.html" ->
             <<"<nav>", "<li class=\"about ">> \o Placeholder("ABOUT_ACTIVE")
               \o <<"\">", "<li class=\"submit ">> \o Placeholder("SUBMIT_ACTIVE")
               \o <<"\">", "</nav>">>
        [] n = "partials/footer.html" -> <<"<footer/>">>
        [] n = "partials/scripts.html" ->
             <<"<script ", "src=\"", "/assets/js/", "site.js", "\"", ">">>
        [] n = "person.html" -> Frame(personBody)
        [] n = "homepage.html" ->
             Frame(<<"<ul>">> \o Placeholder("CATEGORY_LIST") \o <<"</ul>">>
                     \o Placeholder("GALLERY_CARDS"))
        [] n = "category.html" ->
             Frame(<<"<ul>">> \o Placeholder("CATEGORY_LIST_INLINE") \o <<"</ul>">>
                     \o Placeholder("GALLERY_CARDS"))
        [] n = "about.html" -> Frame(<<"about the project">>)
        [] n = "submit.html" -> Frame(<<"submit a story">>) ]

\* ------------------------------------------------------------------------
\* State
\* ------------------------------------------------------------------------
VARIABLES
  \* files under ROOT that build.js and verify.js read
  peopleJson,      \* src/data/people.json: sequence of PersonRecords
  categoriesJson,  \* src/data/categories.json: sequence of CategoryRecords
  templates,       \* src/templates: template name -> text
  srcMissing,      \* names of Store files / templates that do not exist
  rootFiles,       \* asset files under ROOT: path -> content
  output,          \* the _output tree: path -> content
  \* build.js
  bpc,             \* position of the Renderer
  runs,            \* completed or failed Renderer runs
  firstOutput,     \* _output as the first completed run left it
  wiped,           \* paths that a Renderer run removed from _output
  \* verify.js
  vpc,             \* position of the Verifier
  errors,
  warnings,
  checksFailed,    \* number of check() calls whose condition was false
  pageErrors,      \* page path -> failed checks reported for that page
  htmlFiles,
  checkedPaths,
  passes,          \* check passes that have executed
  exitCode,        \* process exit status, -1 while running
  \* render() taken alone
  tpl, tplVars, res, resKey,
  \* extract.js
  indexExists,     \* whether ROOT/index.html exists
  listing,         \* index.html: the sequence of card fragments
  filterBar,       \* index.html: slug -> display name of the filter region
  docs,            \* {slug}/index.html documents that exist
  catDocs,         \* category/{slug}/index.html documents
  xpc,
  homepageEntries,
  people,
  categories,
  xi,              \* index of the listing entry the people loop is at
  xwarnings,
  storeWritten     \* Store files written by this run

siteVars == <<peopleJson, categoriesJson, templates, srcMissing, rootFiles, output,
              bpc, runs, firstOutput, wiped>>
verifyVars == <<vpc, errors, warnings, checksFailed, pageErrors, htmlFiles, checkedPaths,
                passes, exitCode>>
renderVars == <<tpl, tplVars, res, resKey>>
extractVars == <<indexExists, listing, filterBar, docs, catDocs, xpc, homepageEntries, people,
                 categories, xi, xwarnings, storeWritten>>
vars == <<siteVars, verifyVars, renderVars, extractVars>>

\* ------------------------------------------------------------------------
\* build.js
\* ------------------------------------------------------------------------
RECURSIVE Flatten(_, _)
\* array.map(...).join(sep) for an array of texts
Flatten(texts, sep) ==
  IF texts = <<>> THEN <<>>
  ELSE IF Len(texts) = 1 THEN texts[1]
  ELSE texts[1] \o sep \o Flatten(Tail(texts), sep)

Map(f(_), xs) == [i \in 1..Len(xs) |-> f(xs[i])]

partials ==
  [ head |-> templates["partials/head.html"],
    nav |-> templates["partials/nav.html"],
    footer |-> templates["partials/footer.html"],
    scripts |-> templates["partials/scripts.html"] ]

\* a lookup that resolves an unknown id to the first record of the Store
peopleByPostIdDefault(id) ==
  LET hits == { i \in 1..Len(peopleJson) : peopleJson[i].post_id = id }
  IN IF hits = {} THEN (IF peopleJson = << >> THEN << >> ELSE << peopleJson[1] >>)
     ELSE << peopleJson[CHOOSE i \in hits : \A j \in hits : j <= i] >>

\* peopleByPostId[id]: the last record with that post_id wins; <<>> is undefined
peopleByPostId(id) ==
  LET hits == { i \in 1..Len(peopleJson) : peopleJson[i].post_id = id }
  IN IF hits = {} THEN << >>
     ELSE << peopleJson[CHOOSE i \in hits : \A j \in hits : j <= i] >>

buildHead(headExtra) == render(partials.head, << <<"HEAD_EXTRA", headExtra>> >>)

\* a nav partial rendered with the two flags taken in the wrong order
buildNavSwapped(aboutActive, submitActive) ==
  render(partials.nav,
         << <<"ABOUT_ACTIVE", IF submitActive THEN <<"active">> ELSE << >> >>,
            <<"SUBMIT_ACTIVE", IF aboutActive THEN <<"active">> ELSE << >> >> >>)

buildNav(aboutActive, submitActive) ==
  render(partials.nav,
         << <<"ABOUT_ACTIVE", IF aboutActive THEN <<"active">> ELSE << >> >>,
            <<"SUBMIT_ACTIVE", IF submitActive THEN <<"active">> ELSE << >> >> >>)

RelLink(rel, ref) ==
  IF ref = << >> THEN << >>
  ELSE <<"\n<link rel='", rel, "' title='">> \o ref[1].name
         \o <<"' href='/", ref[1].slug, "/' />">>

PersonHeadExtra(person) ==
  <<"<link rel=\"canonical\" href=\"/", person.slug, "/\" />">>
    \o RelLink("prev", person.prev) \o RelLink("next", person.next)

LinkItem(l) == <<"<li><a href=\"", l.url, "\">", l.label, "</a></li>">>

PersonPage(person) ==
  render(templates["person.html"],
    << <<"HEAD", buildHead(PersonHeadExtra(person))>>,
       <<"NAV", buildNav(FALSE, FALSE)>>,
       <<"FOOTER", partials.footer>>,
       <<"SCRIPTS", partials.scripts>>,
       <<"NAME", person.name>>,
       <<"HERO_IMAGE", person.hero_image>>,
       <<"THUMBNAIL", person.thumbnail>>,
       <<"YEARS_IN_TECH", person.years_in_tech>>,
       <<"ROLE", person.role>>,
       <<"LOCATION", person.location>>,
       <<"INTERVIEW_DATE", person.interview_date>>,
       <<"ABSTRACT", person.abstract>>,
       <<"PERSONAL_LINKS", Flatten(Map(LinkItem, person.personal_links), <<"\n">>)>>,
       <<"INTERVIEW_CONTENT", person.interview_content>> >>)

\* the marker `id="post-${id}"` and the link `href="/${slug}/"`
CardMarker(id) == <<"id=\"post-", NumText(id), "\"">>
SlugLink(slug) == <<"href=\"/", slug, "/\"">>

CardHead(person, class) ==
  <<"<div ">> \o CardMarker(person.post_id) \o <<class, "<a class=\"techie-thumbnail\" ">>
    \o SlugLink(person.slug)
    \o <<">", "<img ", "src=\"", "/d1lhy388c2xgxf/thumbnails/">> \o person.thumbnail
    \o <<"\"", " width=\"280px\" height=\"390px\">">>

HomepageCard(person) ==
  CardHead(person, " class=\"techie-gallery col-xs-6 col-sm-4 col-md-3\">")
    \o <<"<div class=\"techie-info\">", "<p class=\"name\">">> \o person.name
    \o <<"</p>", "<p class=\"title\">">> \o person.title
    \o <<"&nbsp", "</p>", "</div>", "</a>", "</div>">>

CategoryCard(person) ==
  CardHead(person, " class=\"techie-gallery col-lg-3 col-md-4 col-sm-6\">")
    \o <<"<p class=\"name\">">> \o person.name
    \o <<"</p>", "<p class=\"title\">">> \o person.title
    \o <<"&nbsp;", "</p>", "</a>", "</div>">>

CategoryListItem(cat) ==
  <<"<li id=\"", cat.slug, "\" class=\"cat-item\"><a href=\"/category/", cat.slug, "/\">">>
    \o cat.display_name \o <<"</a></li>">>

CategoryListInlineItem(cat) ==
  <<"<li id=", cat.slug, " class='cat-item'><a href='/category/", cat.slug, "/'>">>
    \o cat.display_name \o <<"</a></li>">>

HomepagePage ==
  render(templates["homepage.html"],
    << <<"HEAD", buildHead(<< >>)>>,
       <<"NAV", buildNav(FALSE, FALSE)>>,
       <<"FOOTER", partials.footer>>,
       <<"SCRIPTS", partials.scripts>>,
       <<"CATEGORY_LIST", Flatten(Map(CategoryListItem, categoriesJson), <<"\n">>)>>,
       <<"GALLERY_CARDS",
         Flatten(Map(HomepageCard, peopleJson), <<"\n\n  <!-- end loop -->\n  ">>)>> >>)

RECURSIVE Concat(_)
Concat(seqs) == IF seqs = << >> THEN << >> ELSE Head(seqs) \o Concat(Tail(seqs))

\* cat.post_ids.map(id => peopleByPostId[id]).filter(Boolean)
catPeople(cat) == Concat(Map(peopleByPostId, cat.post_ids))

CategoryPage(cat) ==
  render(templates["category.html"],
    << <<"HEAD", buildHead(<< >>)>>,
       <<"NAV", buildNav(FALSE, FALSE)>>,
       <<"FOOTER", partials.footer>>,
       <<"SCRIPTS", partials.scripts>>,
       <<"CATEGORY_LIST_INLINE", Flatten(Map(CategoryListInlineItem, categoriesJson), << >>)>>,
       <<"GALLERY_CARDS",
         Flatten(Map(CategoryCard, catPeople(cat)), <<"\n\n<!-- end loop -->\n">>)>> >>)

AboutPage ==
  render(templates["about.html"],
    << <<"HEAD", buildHead(<<"<link rel=\"canonical\" href=\"/about/\" />">>)>>,
       <<"NAV", buildNav(TRUE, FALSE)>>,
       <<"FOOTER", partials.footer>>,
       <<"SCRIPTS", partials.scripts>> >>)

SubmitPage ==
  render(templates["submit.html"],
    << <<"HEAD", buildHead(<<"<link rel=\"canonical\" href=\"/submit/\" />", "\n",
                             "<link rel='stylesheet' ", "href='", "/assets/css/",
                             "wpgform.css", "'", " type='text/css' media='all' />">>)>>,
       <<"NAV", buildNav(FALSE, TRUE)>>,
       <<"FOOTER", partials.footer>>,
       <<"SCRIPTS", partials.scripts>> >>)

\* paths below _output
PersonPath(slug) == <<slug, "index.html">>
CategoryPath(slug) == <<"category", slug, "index.html">>
HomePath == <<"index.html">>
AboutPath == <<"about", "index.html">>
SubmitPath == <<"submit", "index.html">>
FaviconPath == <<"favicon.ico">>
RobotsPath == <<"robots.txt">>

\* fs.writeFileSync(path, content)
WriteFile(tree, path, content) ==
  [q \in DOMAIN tree \cup {path} |-> IF q = path THEN content ELSE tree[q]]

RECURSIVE WritePersonPages(_, _)
\* people.forEach(person => writeFileSync(_output/{slug}/index.html, html))
WritePersonPages(tree, items) ==
  IF items = << >> THEN tree
  ELSE WritePersonPages(WriteFile(tree, PersonPath(Head(items).slug), PersonPage(Head(items))),
                        Tail(items))

RECURSIVE WriteCategoryPages(_, _)
\* categories.forEach(cat => writeFileSync(_output/category/{slug}/index.html, html))
WriteCategoryPages(tree, items) ==
  IF items = << >> THEN tree
  ELSE WriteCategoryPages(
         WriteFile(tree, CategoryPath(Head(items).slug), CategoryPage(Head(items))),
         Tail(items))

MaxRuns == 2        \* Renderer runs in one behaviour

StoreFiles == {"people.json", "categories.json"}

Idle(pc) == pc \in {"idle", "done", "failed"}

\* a run that removes the previous tree before it reads its inputs
B_LoadAfterClean ==
  /\ Idle(bpc) /\ vpc = "idle" /\ runs < MaxRuns
  /\ output' = << >>
  /\ wiped' = wiped \cup DOMAIN output
  /\ IF srcMissing \cap (StoreFiles \cup TemplateNames) # {}
     THEN bpc' = "failed" /\ runs' = runs + 1
     ELSE bpc' = "clean" /\ runs' = runs
  /\ UNCHANGED <<peopleJson, categoriesJson, templates, srcMissing, rootFiles, firstOutput>>
  /\ UNCHANGED <<verifyVars, renderVars, extractVars>>

\* lines 43-67: read the Store and every template; a missing file throws
B_Load ==
  /\ Idle(bpc) /\ vpc = "idle" /\ runs < MaxRuns
  /\ IF srcMissing \cap (StoreFiles \cup TemplateNames) # {}
     THEN bpc' = "failed" /\ runs' = runs + 1
     ELSE bpc' = "clean" /\ runs' = runs
  /\ UNCHANGED <<peopleJson, categoriesJson, templates, srcMissing, rootFiles, output,
                 firstOutput, wiped>>
  /\ UNCHANGED <<verifyVars, renderVars, extractVars>>

\* a run that writes over the previous tree without removing it
rmOutputKeep(tree) == tree

\* fs.rmSync(OUTPUT, { recursive: true, force: true })
rmOutput(tree) == << >>

\* lines 73-75: wipe the previous output tree
B_Clean ==
  /\ bpc = "clean"
  /\ output' = rmOutput(output)
  /\ wiped' = wiped \cup (DOMAIN output \ DOMAIN output')
  /\ bpc' = "assets"
  /\ UNCHANGED <<peopleJson, categoriesJson, templates, srcMissing, rootFiles, runs,
                 firstOutput>>
  /\ UNCHANGED <<verifyVars, renderVars, extractVars>>

AssetDirs == { "/assets/css/", "/assets/js/", "/assets/images/",
               "/d1lhy388c2xgxf/thumbnails/", "/d1lhy388c2xgxf/portraits/" }

\* copyDirSync(assets), copyDirSync(d1lhy388c2xgxf)
copyDirs(tree) ==
  LET copied == { q \in DOMAIN rootFiles : q[1] \in AssetDirs }
  IN [q \in DOMAIN tree \cup copied |-> IF q \in copied THEN rootFiles[q] ELSE tree[q]]

\* lines 81-87: copy the assets and favicon.ico (copyFileSync throws when it
\* is absent), write robots.txt
B_CopyAssets ==
  /\ bpc = "assets"
  /\ IF FaviconPath \in DOMAIN rootFiles
     THEN /\ output' = WriteFile(WriteFile(copyDirs(output), FaviconPath,
                                           rootFiles[FaviconPath]),
                                 RobotsPath, <<"User-agent: *\nAllow: /\n">>)
          /\ bpc' = "persons" /\ runs' = runs
     ELSE /\ output' = copyDirs(output)
          /\ bpc' = "failed" /\ runs' = runs + 1
  /\ UNCHANGED <<peopleJson, categoriesJson, templates, srcMissing, rootFiles, firstOutput,
                 wiped>>
  /\ UNCHANGED <<verifyVars, renderVars, extractVars>>

\* a page-writing section of build.js
BuildWrite(to, tree) ==
  /\ output' = tree
  /\ bpc' = to
  /\ UNCHANGED <<peopleJson, categoriesJson, templates, srcMissing, rootFiles, runs,
                 firstOutput, wiped>>
  /\ UNCHANGED <<verifyVars, renderVars, extractVars>>

\* lines 108-145
B_Persons ==
  /\ bpc = "persons"
  /\ BuildWrite("homepage", WritePersonPages(output, peopleJson))

\* lines 151-181
B_Homepage ==
  /\ bpc = "homepage"
  /\ BuildWrite("categories", WriteFile(output, HomePath, HomepagePage))

\* lines 187-223
B_Categories ==
  /\ bpc = "categories"
  /\ BuildWrite("about", WriteCategoryPages(output, categoriesJson))

\* lines 229-238
B_About ==
  /\ bpc = "about"
  /\ BuildWrite("submit", WriteFile(output, AboutPath, AboutPage))

\* lines 244-263: the submit page, then the summary and a normal exit
B_Submit ==
  /\ bpc = "submit"
  /\ output' = WriteFile(output, SubmitPath, SubmitPage)
  /\ bpc' = "done"
  /\ runs' = runs + 1
  /\ firstOutput' = IF firstOutput = << >> THEN << output' >> ELSE firstOutput
  /\ UNCHANGED <<peopleJson, categoriesJson, templates, srcMissing, rootFiles, wiped>>
  /\ UNCHANGED <<verifyVars, renderVars, extractVars>>

\* ------------------------------------------------------------------------
\* verify.js
\* ------------------------------------------------------------------------
SnippetThreshold == 100
SnippetLength == 80

\* check(condition, msg): the increment of errors
check(condition) == IF condition THEN 0 ELSE 1

\* warn(msg): the increments of errors and of warnings
warn == [errors |-> 0, warnings |-> 1]

RECURSIVE Sum(_)
Sum(ns) == IF ns = << >> THEN 0 ELSE Head(ns) + Sum(Tail(ns))

\* fs.existsSync(path.join(OUTPUT, ...)): a file, or a directory above one
Exists(path) ==
  \/ path \in DOMAIN output
  \/ \E q \in DOMAIN output : Len(q) > Len(path) /\ SubSeq(q, 1, Len(path)) = path

\* lines 305-320, one iteration
PersonChecks(p) ==
  LET filePath == PersonPath(p.slug)
      html == output[filePath]
  IN check(filePath \in DOMAIN output)
     + IF filePath \in DOMAIN output
       THEN check(Includes(html, p.name))
            + check(Includes(html, p.hero_image))
            + check(Includes(html, p.thumbnail))
            + IF Len(p.interview_content) > SnippetThreshold
              THEN check(Includes(html, SubSeq(p.interview_content, 1, SnippetLength)))
              ELSE 0
       ELSE 0

PidCheck(html, pid) == check(Includes(html, CardMarker(pid)))

\* lines 327-338, one iteration
CategoryChecks(cat) ==
  LET filePath == CategoryPath(cat.slug)
  IN check(filePath \in DOMAIN output)
     + IF filePath \in DOMAIN output
       THEN Sum([i \in 1..Len(cat.post_ids) |-> PidCheck(output[filePath], cat.post_ids[i])])
       ELSE 0

\* lines 345-349
StaticChecks ==
  check(HomePath \in DOMAIN output) + check(AboutPath \in DOMAIN output)
    + check(SubmitPath \in DOMAIN output) + check(FaviconPath \in DOMAIN output)
    + check(RobotsPath \in DOMAIN output)

\* lines 357-360, one iteration
HomepageChecks(p) ==
  check(Includes(output[HomePath], CardMarker(p.post_id)))
    + check(Includes(output[HomePath], SlugLink(p.slug)))

HtmlFileNames == {"index.html"}

\* findHtmlFiles(OUTPUT): every file below _output whose name ends in .html
findHtmlFiles == { q \in DOMAIN output : q[Len(q)] \in HtmlFileNames }

Quotes == {"\"", "'"}

\* the text up to the first token of stops (all of it when there is none)
UpTo(s, stops) ==
  LET hits == { i \in 1..Len(s) : s[i] \in stops }
  IN IF hits = {} THEN s
     ELSE SubSeq(s, 1, (CHOOSE i \in hits : \A j \in hits : i <= j) - 1)

\* matches of /(?:src|href)=["'](\/(assets|d1lhy388c2xgxf)[^"']+)["']/g with
\* the query string stripped
HtmlRefs(html) ==
  { UpTo(UpTo(SubSeq(html, i + 1, Len(html)), Quotes), {"?"}) :
      i \in { j \in 1..Len(html) :
                /\ html[j] \in {"src=\"", "href=\"", "src='", "href='"}
                /\ j < Len(html)
                /\ html[j + 1] \in AssetDirs
                /\ \E k \in (j + 2)..Len(html) : html[k] \in Quotes } }

\* matches of /url\(['"]?(\/(assets|d1lhy388c2xgxf)[^'")]+)['"]?\)/g with
\* query string and fragment stripped
CssRefs(css) ==
  { UpTo(UpTo(SubSeq(css, i + 1, Len(css)), Quotes \cup {")"}), {"?", "#"}) :
      i \in { j \in 1..Len(css) :
                /\ css[j] = "url("
                /\ j < Len(css)
                /\ css[j + 1] \in AssetDirs
                /\ \E k \in (j + 2)..Len(css) : css[k] = ")" } }

CssPath == <<"/assets/css/", "techies.css">>

Remnants == { "wp-content/", "wp-includes/", "wp-json/", "xmlrpc.php",
              "wpemojiSettings", "s3-us-west-2" }

\* lines 428-437: the warnings of one file
RemnantWarnings(html) == Cardinality({ r \in Remnants : Includes(html, <<r>>) })

RECURSIVE SumOver(_, _)
SumOver(S, f) ==
  IF S = {} THEN 0
  ELSE LET x == CHOOSE y \in S : TRUE IN f[x] + SumOver(S \ {x}, f)

\* a summary that also fails the run on warnings
ExitStatusOnAnyReport(e, w) == IF e + w > 0 THEN 1 ELSE 0

\* process.exit: the status of a run that reaches the summary (lines 448-450)
ExitStatus(e, w) == IF e > 0 THEN 1 ELSE 0

\* an uncaught exception ends the process with status 1
Uncaught == 1

\* the failed checks of the pages of one pass, by page
RECURSIVE Tally(_, _, _)
Tally(tally, paths, counts) ==
  IF paths = << >> THEN tally
  ELSE LET q == Head(paths)
           old == IF q \in DOMAIN tally THEN tally[q] ELSE 0
       IN Tally([r \in DOMAIN tally \cup {q} |->
                   IF r = q THEN old + Head(counts) ELSE tally[r]],
                Tail(paths), Tail(counts))

PersonPathOf(p) == PersonPath(p.slug)
CategoryPathOf(cat) == CategoryPath(cat.slug)

VerifyStep(from, to, failed, warned) ==
  /\ vpc = from
  /\ vpc' = to
  /\ errors' = errors + failed + warned * warn.errors
  /\ checksFailed' = checksFailed + failed
  /\ warnings' = warnings + warned * warn.warnings
  /\ passes' = passes \cup {from}
  /\ UNCHANGED <<siteVars, renderVars, extractVars>>

\* lines 297-298: load the Store; a missing file throws
V_Load ==
  /\ vpc = "idle" /\ Idle(bpc)
  /\ IF srcMissing \cap StoreFiles # {}
     THEN vpc' = "exited" /\ exitCode' = Uncaught
     ELSE vpc' = "persons" /\ exitCode' = exitCode
  /\ UNCHANGED <<errors, warnings, checksFailed, pageErrors, htmlFiles, checkedPaths, passes>>
  /\ UNCHANGED <<siteVars, renderVars, extractVars>>

\* lines 304-320
V_Persons ==
  /\ VerifyStep("persons", "categories", Sum(Map(PersonChecks, peopleJson)), 0)
  /\ pageErrors' = Tally(pageErrors, Map(PersonPathOf, peopleJson),
                         Map(PersonChecks, peopleJson))
  /\ UNCHANGED <<htmlFiles, checkedPaths, exitCode>>

\* lines 326-338
V_Categories ==
  /\ VerifyStep("categories", "static", Sum(Map(CategoryChecks, categoriesJson)), 0)
  /\ pageErrors' = Tally(pageErrors, Map(CategoryPathOf, categoriesJson),
                         Map(CategoryChecks, categoriesJson))
  /\ UNCHANGED <<htmlFiles, checkedPaths, exitCode>>

\* lines 344-349
V_Static ==
  /\ VerifyStep("static", "homepage", StaticChecks, 0)
  /\ UNCHANGED <<pageErrors, htmlFiles, checkedPaths, exitCode>>

\* lines 355-360: readFileSync(index.html) throws when the homepage is absent
V_Homepage ==
  /\ vpc = "homepage"
  /\ IF HomePath \in DOMAIN output
     THEN /\ VerifyStep("homepage", "assets", Sum(Map(HomepageChecks, peopleJson)), 0)
          /\ exitCode' = exitCode
     ELSE /\ vpc' = "exited" /\ exitCode' = Uncaught
          /\ UNCHANGED <<errors, warnings, checksFailed, passes>>
          /\ UNCHANGED <<siteVars, renderVars, extractVars>>
  /\ UNCHANGED <<pageErrors, htmlFiles, checkedPaths>>

\* lines 366-399: one warning for every distinct reference that does not exist
V_Assets ==
  LET files == findHtmlFiles
      refs == UNION { HtmlRefs(output[f]) : f \in files }
  IN /\ VerifyStep("assets", "css", 0, Cardinality({ r \in refs : ~Exists(r) }))
     /\ htmlFiles' = files
     /\ checkedPaths' = refs
     /\ UNCHANGED <<pageErrors, exitCode>>

\* lines 405-421
V_Css ==
  LET refs == IF CssPath \in DOMAIN output THEN CssRefs(output[CssPath]) \ checkedPaths
              ELSE {}
  IN /\ VerifyStep("css", "remnants", 0, Cardinality({ r \in refs : ~Exists(r) }))
     /\ checkedPaths' = checkedPaths \cup refs
     /\ UNCHANGED <<pageErrors, htmlFiles, exitCode>>

\* lines 427-437
V_Remnants ==
  /\ VerifyStep("remnants", "summary", 0,
                SumOver(htmlFiles, [f \in htmlFiles |-> RemnantWarnings(output[f])]))
  /\ UNCHANGED <<pageErrors, htmlFiles, checkedPaths, exitCode>>

\* lines 443-450
V_Summary ==
  /\ vpc = "summary"
  /\ vpc' = "exited"
  /\ exitCode' = ExitStatus(errors, warnings)
  /\ passes' = passes \cup {"summary"}
  /\ UNCHANGED <<errors, warnings, checksFailed, pageErrors, htmlFiles, checkedPaths>>
  /\ UNCHANGED <<siteVars, renderVars, extractVars>>

\* ------------------------------------------------------------------------
\* extract.js
\* ------------------------------------------------------------------------
\* the elements of s at the positions of keep, in order
Pick(s, keep) ==
  [k \in 1..Cardinality(keep) |->
     s[CHOOSE i \in keep : Cardinality({ j \in keep : j <= i }) = k]]

Whitespace == {" ", "\n", "\n  "}

\* String.prototype.trim()
StripWs(s) ==
  LET solid == { i \in 1..Len(s) : s[i] \notin Whitespace }
  IN IF solid = {} THEN << >>
     ELSE SubSeq(s, CHOOSE i \in solid : \A j \in solid : i <= j,
                    CHOOSE i \in solid : \A j \in solid : j <= i)

\* trim(s): drop &nbsp; entities, collapse whitespace runs, strip the ends
trim(s) ==
  LET noNbsp == SelectSeq(s, LAMBDA t : t \notin {"&nbsp;", "&nbsp"})
      firsts == { i \in 1..Len(noNbsp) :
                    ~(noNbsp[i] \in Whitespace /\ i > 1 /\ noNbsp[i - 1] \in Whitespace) }
      one == Pick(noNbsp, firsts)
  IN StripWs([i \in 1..Len(one) |-> IF one[i] \in Whitespace THEN " " ELSE one[i]])

RECURSIVE DecimalValue(_)
DecimalValue(ds) ==
  IF ds = << >> THEN 0 ELSE 10 * DecimalValue(SubSeq(ds, 1, Len(ds) - 1)) + ds[Len(ds)]

\* parseInt(text, 10) || 0 for a text of decimal digits ('' gives NaN, then 0)
parseIntOr0(ds) == DecimalValue(ds)

\* html.substring(a, b) on 1-based positions a..b-1; as in JavaScript a
\* negative bound counts as the start of the text and the bounds are swapped
\* when the first is the larger.  Position 0 stands for indexOf's -1.
Substring(s, a, b) ==
  LET lo == IF a < b THEN a ELSE b
      hi == IF a < b THEN b ELSE a
  IN SubSeq(s, IF lo < 1 THEN 1 ELSE lo, hi - 1)

\* extractBetween(html, startMarker, endMarker)
extractBetween(html, startMarker, endMarker) ==
  LET startIdx == IndexOf(html, startMarker, 1)
      afterStart == startIdx + Len(startMarker)
      endIdx == IndexOf(html, endMarker, afterStart)
  IN IF startIdx = 0 THEN << >>
     ELSE IF endIdx = 0 THEN << >>
     ELSE Substring(html, afterStart, endIdx)

\* the cards of the listing document taken last to first
parseHomepageReversed ==
  LET cards == SelectSeq(listing, LAMBDA f : f.card)
  IN [ i \in 1..Len(cards) |->
         [ post_id |-> parseIntOr0(cards[Len(cards) + 1 - i].id),
           slug |-> cards[Len(cards) + 1 - i].slug,
           name |-> StripWs(cards[Len(cards) + 1 - i].name),
           title |-> trim(cards[Len(cards) + 1 - i].title) ] ]

\* lines 42-57: the cards of the listing document that match cardRegex
parseHomepage ==
  LET cards == SelectSeq(listing, LAMBDA f : f.card)
  IN [ i \in 1..Len(cards) |->
         [ post_id |-> parseIntOr0(cards[i].id),
           slug |-> cards[i].slug,
           name |-> StripWs(cards[i].name),
           title |-> trim(cards[i].title) ] ]

\* titleBySlug[slug] || '': the title of the last entry with that slug
titleBySlug(slug) ==
  LET hits == { i \in 1..Len(homepageEntries) : homepageEntries[i].slug = slug }
  IN IF hits = {} THEN << >>
     ELSE homepageEntries[CHOOSE i \in hits : \A j \in hits : j <= i].title

AbstractStart == <<"<div class=\"col-md-6 abstract\">">>
DivClose == <<"</div>">>
AbstractEnd == <<"\n  ", "</div>", "\n", "</div>", "\n", "<div class=\"row\">">>
PostStart == <<"<div class=\"col-xs-12 col-md-6 post\">">>
PostEnd == <<"\n  ", "</div>", "\n  ", "<div class=\"col-xs-12 col-md-3 photo\">">>

\* lines 96-110
parseAbstract(html) ==
  LET abstractStart == IndexOf(html, AbstractStart, 1)
      afterAbstract == abstractStart + Len(AbstractStart)
      abstractEnd == IndexOf(html, AbstractEnd, afterAbstract)
      fallbackEnd == IndexOf(html, DivClose, afterAbstract)
  IN IF abstractStart = 0 THEN << >>
     ELSE IF abstractEnd # 0 THEN StripWs(Substring(html, afterAbstract, abstractEnd))
     ELSE StripWs(Substring(html, afterAbstract, fallbackEnd))

\* lines 121-131
parseInterviewContent(html) ==
  LET postStart == IndexOf(html, PostStart, 1)
      afterPost == postStart + Len(PostStart)
      postEnd == IndexOf(html, PostEnd, afterPost)
  IN IF postStart = 0 THEN << >>
     ELSE IF postEnd # 0 THEN StripWs(Substring(html, afterPost, postEnd))
     ELSE << >>

\* fs.existsSync({slug}/index.html)
DocExists(slug) == slug \in DOMAIN docs

\* a parse that does not test for the document and yields a blank record
parsePersonPageBlank(slug) ==
  << [ slug |-> slug, post_id |-> 0, name |-> << >>, hero_image |-> << >>,
       thumbnail |-> << >>, years_in_tech |-> << >>, role |-> << >>, location |-> << >>,
       interview_date |-> << >>, abstract |-> << >>, personal_links |-> << >>,
       interview_content |-> << >>, prev |-> << >>, next |-> << >> ] >>

\* lines 63-155: << >> is null (document absent); doc holds what the
\* regular expressions of the function capture
parsePersonPage(slug) ==
  IF ~DocExists(slug) THEN << >>
  ELSE LET doc == docs[slug] IN
       << [ slug |-> slug,
            post_id |-> parseIntOr0(doc.shortlink),
            name |-> StripWs(doc.name),
            hero_image |-> doc.hero_image,
            thumbnail |-> doc.thumbnail,
            years_in_tech |-> StripWs(doc.years),
            role |-> trim(doc.role),
            location |-> StripWs(doc.location),
            interview_date |-> StripWs(doc.date),
            abstract |-> parseAbstract(doc.html),
            personal_links |-> doc.links,
            interview_content |-> parseInterviewContent(doc.html),
            prev |-> doc.prev,
            next |-> doc.next ] >>

\* a merge that always takes the id of the listing entry
mergePostIdListing(own, listed) == listed

\* line 221: if (!person.post_id) person.post_id = entry.post_id
mergePostId(own, listed) == IF own = 0 THEN listed ELSE own

\* lines 218-221: the record that is pushed for a listing entry
mergeEntry(person, entry) ==
  [ slug |-> person.slug,
    post_id |-> mergePostId(person.post_id, entry.post_id),
    name |-> person.name,
    hero_image |-> person.hero_image,
    thumbnail |-> person.thumbnail,
    years_in_tech |-> person.years_in_tech,
    role |-> person.role,
    location |-> person.location,
    interview_date |-> person.interview_date,
    abstract |-> person.abstract,
    personal_links |-> person.personal_links,
    interview_content |-> person.interview_content,
    prev |-> person.prev,
    next |-> person.next,
    title |-> titleBySlug(entry.slug) ]

\* a.slug.localeCompare(b.slug) < 0 for the category slugs of the model
SlugRank == [ sl \in {"backend", "feed", "frontend"} |->
                CASE sl = "backend" -> 1 [] sl = "feed" -> 2 [] sl = "frontend" -> 3 ]

\* the categories left in the order the directory was read in
SortNot(cats) == cats

\* categories.sort((a, b) => a.slug.localeCompare(b.slug))
SortBySlug(cats) ==
  LET pos(i) == Cardinality({ j \in 1..Len(cats) :
                    \/ SlugRank[cats[j].slug] < SlugRank[cats[i].slug]
                    \/ (SlugRank[cats[j].slug] = SlugRank[cats[i].slug] /\ j <= i) })
  IN [ k \in 1..Len(cats) |-> cats[CHOOSE i \in 1..Len(cats) : pos(i) = k] ]

\* lines 161-196: catDocs is the category directory in readdir order
parseCategories ==
  LET slugs == SelectSeq(catDocs, LAMBDA d : d.isDirectory /\ d.slug # "feed")
      withIndex == SelectSeq(slugs, LAMBDA d : d.hasIndex)
  IN SortBySlug([ i \in 1..Len(withIndex) |->
       [ slug |-> withIndex[i].slug,
         display_name |-> IF withIndex[i].feedTitle # << >> THEN withIndex[i].feedTitle
                          ELSE << withIndex[i].slug >>,
         post_ids |-> Map(parseIntOr0, withIndex[i].post_ids) ] ])

\* lines 242-246: catDisplayNames[cat.slug], when it is non-empty, wins
overrideDisplayName(cat) ==
  [ slug |-> cat.slug,
    display_name |-> IF cat.slug \in DOMAIN filterBar /\ filterBar[cat.slug] # << >>
                     THEN filterBar[cat.slug] ELSE cat.display_name,
    post_ids |-> cat.post_ids ]

\* lines 202-210: readFile('index.html') throws when the listing is absent
X_ParseHomepage ==
  /\ xpc = "idle"
  /\ IF indexExists
     THEN xpc' = "people" /\ homepageEntries' = parseHomepage /\ xi' = 1
     ELSE xpc' = "failed" /\ UNCHANGED <<homepageEntries, xi>>
  /\ UNCHANGED <<indexExists, listing, filterBar, docs, catDocs, people, categories,
                 xwarnings, storeWritten>>
  /\ UNCHANGED <<siteVars, verifyVars, renderVars>>

\* lines 214-227: one iteration of the loop over homepageEntries
X_Person ==
  /\ xpc = "people" /\ xi <= Len(homepageEntries)
  /\ LET entry == homepageEntries[xi]
         person == parsePersonPage(entry.slug)
     IN IF person # << >>
        THEN people' = Append(people, mergeEntry(person[1], entry)) /\ xwarnings' = xwarnings
        ELSE people' = people /\ xwarnings' = xwarnings + 1
  /\ xi' = xi + 1
  /\ UNCHANGED <<indexExists, listing, filterBar, docs, catDocs, xpc, homepageEntries,
                 categories, storeWritten>>
  /\ UNCHANGED <<siteVars, verifyVars, renderVars>>

\* lines 229-246
X_Categories ==
  /\ xpc = "people" /\ xi > Len(homepageEntries)
  /\ categories' = Map(overrideDisplayName, parseCategories)
  /\ xpc' = "write"
  /\ UNCHANGED <<indexExists, listing, filterBar, docs, catDocs, homepageEntries, people,
                 xi, xwarnings, storeWritten>>
  /\ UNCHANGED <<siteVars, verifyVars, renderVars>>

\* lines 248-262
X_Write ==
  /\ xpc = "write"
  /\ peopleJson' = people
  /\ categoriesJson' = categories
  /\ storeWritten' = {"people.json", "categories.json"}
  /\ srcMissing' = srcMissing \ storeWritten'
  /\ xpc' = "done"
  /\ UNCHANGED <<templates, rootFiles, output, bpc, runs, firstOutput, wiped>>
  /\ UNCHANGED <<indexExists, listing, filterBar, docs, catDocs, homepageEntries, people,
                 categories, xi, xwarnings>>
  /\ UNCHANGED <<verifyVars, renderVars>>

\* ------------------------------------------------------------------------
\* Initial states of the Renderer / Verifier specification
\* ------------------------------------------------------------------------
Stores ==
  { <<ps, <<Category("backend", <<42>>), Category("frontend", ids)>> >> :
      ps \in SeqsUpTo(PersonRecords, MaxPeople), ids \in PostIdLists }

Bin == <<"bin">>

\* the asset files of the repository
RootAssets ==
  { <<"/assets/css/", "techies.css">>, <<"/assets/js/", "site.js">>,
    <<"/assets/images/", "logo.png">>,
    <<"/d1lhy388c2xgxf/thumbnails/", "ada-thumb.jpg">>,
    <<"/d1lhy388c2xgxf/thumbnails/", "bob-thumb.jpg">>,
    <<"/d1lhy388c2xgxf/portraits/", "ada-hero.jpg">>,
    <<"/d1lhy388c2xgxf/portraits/", "bob-hero.jpg">>,
    FaviconPath }

RootTree(missing) ==
  [ q \in RootAssets \ missing |->
      IF q = CssPath
      THEN <<"body{background:", "url(", "/assets/images/", "logo.png", ")", "}",
             "@font-face{src:", "url(", "'", "/assets/fonts/", "a.woff", "?", "v1", "'", ")", "}",
             "h1{background:", "url(", "/assets/images/", "gone.png", "#", "x", ")", "}">>
      ELSE Bin ]

\* an output tree left behind by an earlier run of some other Store
OldPaths ==
  { PersonPath("ada"), PersonPath("bob"), PersonPath("old"),
    CategoryPath("backend"), CategoryPath("frontend"),
    HomePath, AboutPath, SubmitPath, FaviconPath, RobotsPath }

OldPage(q) ==
  IF q = HomePath
  THEN CardMarker(42) \o SlugLink("ada") \o CardMarker(99) \o SlugLink("bob")
  ELSE IF q = PersonPath("ada") THEN <<"Ada", "ada-hero.jpg", "ada-thumb.jpg">>
  ELSE IF q = CategoryPath("frontend") THEN CardMarker(42) \o CardMarker(99)
  ELSE <<"old page", "wp-json/">>

OldTree(missing) == [ q \in OldPaths \ missing |-> OldPage(q) ]

\* templates, missing source files, asset files, previous output tree
Environments ==
  { <<TemplateFiles(PersonBody), {}, RootTree({}), << >> >>,
    <<TemplateFiles(PersonBody), {}, RootTree({}), OldTree({}) >>,
    <<TemplateFiles(PersonBody), {}, RootTree({}), OldTree({HomePath}) >>,
    <<TemplateFiles(PersonBody), {}, RootTree({}),
      OldTree({PersonPath("ada"), CategoryPath("frontend"), AboutPath}) >>,
    <<TemplateFiles(PersonBodyNoName), {}, RootTree({}), << >> >>,
    <<TemplateFiles(PersonBody), {}, RootTree({<<"/d1lhy388c2xgxf/thumbnails/", "bob-thumb.jpg">>}),
      << >> >>,
    <<TemplateFiles(PersonBody), {}, RootTree({FaviconPath}), OldTree({}) >>,
    <<TemplateFiles(PersonBody), {"people.json"}, RootTree({}), OldTree({}) >>,
    <<TemplateFiles(PersonBody), {"about.html"}, RootTree({}), OldTree({}) >> }

SiteInit ==
  /\ \E st \in Stores : peopleJson = st[1] /\ categoriesJson = st[2]
  /\ \E env \in Environments :
       /\ templates = env[1] /\ srcMissing = env[2]
       /\ rootFiles = env[3] /\ output = env[4]
  /\ bpc = "idle" /\ runs = 0 /\ firstOutput = << >> /\ wiped = {}

VerifyInit ==
  /\ vpc = "idle" /\ errors = 0 /\ warnings = 0 /\ checksFailed = 0 /\ pageErrors = << >>
  /\ htmlFiles = {} /\ checkedPaths = {} /\ passes = {} /\ exitCode = -1

SiteIdle ==
  /\ peopleJson = << >> /\ categoriesJson = << >>
  /\ templates = TemplateFiles(PersonBody) /\ srcMissing = {}
  /\ rootFiles = << >> /\ output = << >>
  /\ bpc = "idle" /\ runs = 0 /\ firstOutput = << >> /\ wiped = {}

RenderIdle == tpl = << >> /\ tplVars = << >> /\ res = << >> /\ resKey = 0

ExtractIdle ==
  /\ indexExists = TRUE
  /\ listing = << >> /\ filterBar = << >> /\ docs = << >> /\ catDocs = << >>
  /\ xpc = "idle" /\ homepageEntries = << >> /\ people = << >> /\ categories = << >>
  /\ xi = 0 /\ xwarnings = 0 /\ storeWritten = {}

\* build.js and verify.js over one file system
Init == SiteInit /\ VerifyInit /\ RenderIdle /\ ExtractIdle

Next ==
  \/ B_Load \/ B_Clean \/ B_CopyAssets \/ B_Persons \/ B_Homepage
  \/ B_Categories \/ B_About \/ B_Submit
  \/ V_Load \/ V_Persons \/ V_Categories \/ V_Static \/ V_Homepage
  \/ V_Assets \/ V_Css \/ V_Remnants \/ V_Summary

Spec == Init /\ [][Next]_vars

\* ------------------------------------------------------------------------
\* Properties of the Renderer and the Verifier (specification Spec)
\* ------------------------------------------------------------------------
StoreRead == srcMissing \cap StoreFiles = {}

\* C1: when the Verifier has exited (the Store being readable), its exit
\* status is non-zero if and only if at least one check() failed during the
\* run; warnings alone leave the status at zero.
C1_ExitIffFatal ==
  (vpc = "exited" /\ StoreRead) => (exitCode # 0 <=> checksFailed > 0)

\* a run that reported warnings and no failed check, and exited with 0
C1_Witness ==
  vpc = "exited" /\ StoreRead /\ warnings > 0 /\ checksFailed = 0 /\ exitCode = 0

\* the ids of the card markers of a page, in page order
CardIds(html) ==
  LET at == { i \in 1..(Len(html) - 2) : html[i] = "id=\"post-" /\ html[i + 2] = "\"" }
  IN [k \in 1..Cardinality(at) |->
        html[(CHOOSE i \in at : Cardinality({ j \in at : j <= i }) = k) + 1]]

HasRecord(id) == \E i \in 1..Len(peopleJson) : peopleJson[i].post_id = id

\* the post_ids of a category that resolve to a PersonRecord, as page text
ResolvedIds(cat) ==
  LET keep(id) == HasRecord(id)
  IN Map(NumText, SelectSeq(cat.post_ids, keep))

FrontendScenario ==
  /\ Len(categoriesJson) = 2
  /\ categoriesJson[1].slug = "backend" /\ categoriesJson[1].post_ids = <<42>>
  /\ categoriesJson[2].slug = "frontend" /\ categoriesJson[2].post_ids = <<42, 99>>
  /\ HasRecord(42) /\ ~HasRecord(99)

\* C2: in the backend=[42] / frontend=[42,99] scenario with no record 99,
\* after the Renderer and then the Verifier's category pass have run, the
\* frontend page has exactly the one card 42 and the Verifier has reported
\* no failed check for that page.
C2_FrontendScenarioClean ==
  (FrontendScenario /\ bpc = "done" /\ "categories" \in passes) =>
     /\ CardIds(output[CategoryPath("frontend")]) = <<"42">>
     /\ pageErrors[CategoryPath("frontend")] = 0

\* C3: once the category section of the Renderer has run, every category has
\* its page, and the cards of the page are the category's post_ids that
\* resolve to a PersonRecord, in the order of post_ids.
C3_CategoryCards ==
  bpc \in {"about", "submit", "done"} =>
    \A i \in 1..Len(categoriesJson) :
       /\ CategoryPath(categoriesJson[i].slug) \in DOMAIN output
       /\ CardIds(output[CategoryPath(categoriesJson[i].slug)]) = ResolvedIds(categoriesJson[i])

\* a rendered category page with a dangling id and a resolving id after it
C3_Witness ==
  /\ bpc = "done"
  /\ categoriesJson[2].post_ids = <<99, 42>>
  /\ ~HasRecord(99) /\ HasRecord(42)
  /\ CardIds(output[CategoryPath("frontend")]) = <<"42">>

UniqueSlugs == \A i, j \in 1..Len(peopleJson) : peopleJson[i].slug = peopleJson[j].slug => i = j

IdentityPlaceholders ==
  \A k \in {"NAME", "HERO_IMAGE", "THUMBNAIL"} : Includes(templates["person.html"], Placeholder(k))

\* C5: with a person template that holds the NAME, HERO_IMAGE and THUMBNAIL
\* placeholders, after the Renderer and the Verifier's person pass, every
\* PersonRecord's page holds its name, hero_image and thumbnail verbatim.
C5_IdentityRoundTrip ==
  (bpc = "done" /\ "persons" \in passes /\ IdentityPlaceholders /\ UniqueSlugs) =>
     \A i \in 1..Len(peopleJson) :
        LET p == peopleJson[i] IN
        /\ PersonPath(p.slug) \in DOMAIN output
        /\ Includes(output[PersonPath(p.slug)], p.name)
        /\ Includes(output[PersonPath(p.slug)], p.hero_image)
        /\ Includes(output[PersonPath(p.slug)], p.thumbnail)

\* the paths a run of the Renderer writes
ProducedPaths ==
  { PersonPath(peopleJson[i].slug) : i \in 1..Len(peopleJson) }
    \cup { CategoryPath(categoriesJson[i].slug) : i \in 1..Len(categoriesJson) }
    \cup { HomePath, AboutPath, SubmitPath, RobotsPath }
    \cup DOMAIN rootFiles

\* C6: a completed Renderer run leaves exactly the tree the first completed
\* run left, and no path in it that the run did not write itself.
C6_Idempotent ==
  bpc = "done" =>
    /\ output = firstOutput[1]
    /\ DOMAIN output \subseteq ProducedPaths

\* a second completed run, over a first tree that held a page of another Store
C6_Witness ==
  /\ bpc = "done" /\ runs = 2
  /\ PersonPath("old") \in wiped
  /\ HomePath \in wiped

LaterPasses == {"static", "homepage", "assets", "css", "remnants", "summary"}

\* C10: whatever the output tree holds, a Verifier that has exited (the Store
\* being readable) has executed every check pass.
C10_AllPassesRun ==
  (vpc = "exited" /\ StoreRead) => LaterPasses \subseteq passes

\* ------------------------------------------------------------------------
\* render() taken alone (specification SpecRender)
\* ------------------------------------------------------------------------
MaxPieces == 2      \* pieces a template is put together from

RenderPieces ==
  { <<"<h1>">>, Placeholder("NAME"), Placeholder("ROLE"), <<"{{", "NAME">>, <<"}}">> }

RenderTemplates == { Concat(ps) : ps \in SeqsUpTo(RenderPieces, MaxPieces) }

RenderValues == { <<"Ada">>, << >>, Placeholder("ROLE"), Placeholder("NAME"), <<"{{">> }

RenderInit ==
  /\ tpl \in RenderTemplates
  /\ \E name \in RenderValues, role \in RenderValues :
       tplVars = << <<"NAME", name>>, <<"ROLE", role>> >>
  /\ res = tpl
  /\ resKey = 0

\* lines 32-35: one iteration of the loop over Object.entries(vars)
R_Key ==
  /\ resKey < Len(tplVars)
  /\ res' = RenderKey(res, tplVars[resKey + 1])
  /\ resKey' = resKey + 1
  /\ UNCHANGED <<tpl, tplVars>>
  /\ UNCHANGED <<siteVars, verifyVars, extractVars>>

\* line 36: return result
R_Return ==
  /\ resKey = Len(tplVars)
  /\ resKey' = Len(tplVars) + 1
  /\ UNCHANGED <<tpl, tplVars, res>>
  /\ UNCHANGED <<siteVars, verifyVars, extractVars>>

Returned == resKey = Len(tplVars) + 1

InitRender == RenderInit /\ SiteIdle /\ VerifyInit /\ ExtractIdle
NextRender == R_Key \/ R_Return
SpecRender == InitRender /\ [][NextRender]_vars

\* C4: the result of render() is the template with each placeholder
\* occurrence replaced by its value once; substituted text is never
\* substituted again.
C4_NonRecursive == Returned => res = SubstOnce(tpl, tplVars)

\* ------------------------------------------------------------------------
\* extract.js over a legacy site (specification SpecExtract)
\* ------------------------------------------------------------------------
DisplayNameOf(slug) == IF slug = "ada" THEN "Ada" ELSE "Bob"

\* a fragment of the listing that cardRegex matches, and one it does not
Card(id, slug) ==
  [ card |-> TRUE, id |-> id, slug |-> slug,
    name |-> <<"\n", DisplayNameOf(slug), " ">>,
    title |-> <<"Engineer", " ", "\n", "at", " ", slug, "&nbsp">> ]
Malformed == [ card |-> FALSE, id |-> << >>, slug |-> "", name |-> << >>, title |-> << >> ]

CardIdTexts == { <<4, 2>>, <<9, 9>> }
Fragments == { Card(d, sl) : d \in CardIdTexts, sl \in Slugs } \cup { Malformed }

BodyNormal ==
  <<"<html>">> \o AbstractStart \o <<"\n", "<p>", "abstract", "</p>">> \o AbstractEnd
    \o PostStart \o <<"\n", "<p>", "interview", "</p>">> \o PostEnd
    \o <<"<img>", "</div>", "</html>">>
\* the sibling markers that close the two regions are not there
BodyNoSiblings ==
  <<"<html>">> \o AbstractStart \o <<"<p>", "abstract", "</p>", "</div>">>
    \o PostStart \o <<"<p>", "interview", "</p>", "</div>", "</html>">>
\* nothing closes the abstract region
BodyUnclosed == <<"<html>">> \o AbstractStart \o <<"<p>", "abstract", "</p>", "</html>">>
BodyBare == <<"<html>", "</html>">>

Document(slug, shortlink, html) ==
  [ shortlink |-> shortlink,
    name |-> <<"\n", DisplayNameOf(slug), "\n">>,
    hero_image |-> <<IF slug = "ada" THEN "ada-hero.jpg" ELSE "bob-hero.jpg">>,
    thumbnail |-> <<IF slug = "ada" THEN "ada-thumb.jpg" ELSE "bob-thumb.jpg">>,
    years |-> <<" ", "5 years">>,
    role |-> <<"Engineer", " ", " ", "&nbsp;">>,
    location |-> <<"SF", " ">>,
    date |-> <<"Jan 2016">>,
    html |-> html,
    links |-> IF slug = "ada"
              THEN << [url |-> "http://ada.example", label |-> "site"] >> ELSE << >>,
    prev |-> IF slug = "bob" THEN << [name |-> <<"Ada">>, slug |-> "ada"] >> ELSE << >>,
    next |-> IF slug = "ada" THEN << [name |-> <<"Bob">>, slug |-> "bob"] >> ELSE << >> ]

AdaDocuments ==
  { Document("ada", sh, BodyNormal) : sh \in { << >>, <<0>>, <<4, 2>>, <<9, 9>> } }
    \cup { Document("ada", <<4, 2>>, b) : b \in { BodyNoSiblings, BodyUnclosed, BodyBare } }
BobDocuments == { Document("bob", sh, BodyNormal) : sh \in { << >>, <<9, 9>> } }

\* the per-entity documents that exist
DocumentSets ==
  { << >> }
    \cup { [sl \in {"ada"} |-> a] : a \in AdaDocuments }
    \cup { [sl \in {"bob"} |-> b] : b \in BobDocuments }
    \cup { [sl \in Slugs |-> IF sl = "ada" THEN a ELSE b] :
             a \in AdaDocuments, b \in BobDocuments }

CategoryDir(slug, hasIndex, feedTitle, ids) ==
  [ slug |-> slug, isDirectory |-> TRUE, hasIndex |-> hasIndex,
    feedTitle |-> feedTitle, post_ids |-> ids ]

\* the category directory in readdir order, and the filter region of index.html
CategorySources ==
  { << << CategoryDir("frontend", TRUE, <<"Frontend">>, << <<4, 2>>, <<9, 9>> >>),
          CategoryDir("feed", TRUE, << >>, << >>),
          CategoryDir("backend", TRUE, << >>, << <<4, 2>> >>) >>,
       [sl \in {"backend"} |-> <<"Back End">>] >>,
    << << CategoryDir("backend", TRUE, <<"Backend">>, << <<4, 2>> >>),
          CategoryDir("frontend", TRUE, <<"Frontend">>, << >>) >>,
       [sl \in {"frontend"} |-> <<"Front End">>] >>,
    << << CategoryDir("frontend", FALSE, << >>, << >>),
          [ slug |-> "backend", isDirectory |-> FALSE, hasIndex |-> FALSE,
            feedTitle |-> << >>, post_ids |-> << >> ] >>,
       << >> >>,
    << << CategoryDir("frontend", TRUE, << >>, << <<9, 9>> >>),
          CategoryDir("backend", TRUE, <<"Backend">>, << >>) >>,
       [sl \in {"backend"} |-> <<"Back End">>] >>,
    << << >>, << >> >> }

ExtractInit ==
  /\ \/ /\ indexExists = TRUE
        /\ listing \in SeqsUpTo(Fragments, MaxCards)
        /\ \E src \in CategorySources : catDocs = src[1] /\ filterBar = src[2]
     \/ /\ indexExists = FALSE
        /\ listing = << >> /\ catDocs = << >> /\ filterBar = << >>
  /\ docs \in DocumentSets
  /\ xpc = "idle" /\ homepageEntries = << >> /\ people = << >> /\ categories = << >>
  /\ xi = 0 /\ xwarnings = 0 /\ storeWritten = {}

StoreIdle ==
  /\ peopleJson = << >> /\ categoriesJson = << >>
  /\ templates = TemplateFiles(PersonBody) /\ srcMissing = StoreFiles
  /\ rootFiles = << >> /\ output = << >>
  /\ bpc = "idle" /\ runs = 0 /\ firstOutput = << >> /\ wiped = {}

InitExtract == ExtractInit /\ StoreIdle /\ VerifyInit /\ RenderIdle
NextExtract == X_ParseHomepage \/ X_Person \/ X_Categories \/ X_Write
SpecExtract == InitExtract /\ [][NextExtract]_vars

ListedSlugs == { listing[i].slug : i \in { j \in 1..Len(listing) : listing[j].card } }

SlugsOf(records) == [ i \in 1..Len(records) |-> records[i].slug ]

\* C7: the People collection that the Extractor has written holds no two
\* records with the same slug and no two records with the same post_id.
C7_UniqueIdentity ==
  xpc = "done" =>
    \A i, j \in 1..Len(peopleJson) :
       i # j => /\ peopleJson[i].slug # peopleJson[j].slug
                /\ peopleJson[i].post_id # peopleJson[j].post_id

\* C8: when the run has ended and a listed slug has no document, the run has
\* ended normally with both Store files written, the People collection holds
\* no record of a slug without document, one warning was recorded for every
\* such listing entry, and the other entries are all there, in listing order.
C8_MissingDocumentSkipped ==
  (xpc \in {"done", "failed"} /\ \E sl \in ListedSlugs : ~DocExists(sl)) =>
     /\ xpc = "done"
     /\ storeWritten = StoreFiles
     /\ \A i \in 1..Len(peopleJson) : DocExists(peopleJson[i].slug)
     /\ xwarnings = Len(SelectSeq(homepageEntries, LAMBDA e : ~DocExists(e.slug)))
     /\ xwarnings > 0
     /\ SlugsOf(peopleJson) = SlugsOf(SelectSeq(homepageEntries, LAMBDA e : DocExists(e.slug)))

\* a finished run over a listing with one slug without and one with a document
C8_Witness ==
  /\ xpc = "done"
  /\ \E sl \in ListedSlugs : ~DocExists(sl)
  /\ \E sl \in ListedSlugs : DocExists(sl)
  /\ Len(peopleJson) > 0 /\ xwarnings > 0

\* the id that the record's own document yields
OwnId(slug) == parseIntOr0(docs[slug].shortlink)

\* C9: in the People collection written, the record of a listing entry has
\* the entry's id when its own document yields 0 and the entry's id is not 0,
\* and the id of its own document whenever that is not 0.
C9_PostIdBackfill ==
  xpc = "done" =>
    LET kept == SelectSeq(homepageEntries, LAMBDA e : DocExists(e.slug))
    IN /\ Len(peopleJson) = Len(kept)
       /\ \A k \in 1..Len(kept) :
            /\ (OwnId(kept[k].slug) = 0 /\ kept[k].post_id # 0)
                 => peopleJson[k].post_id = kept[k].post_id
            /\ OwnId(kept[k].slug) # 0 => peopleJson[k].post_id = OwnId(kept[k].slug)

\* a written collection with a backfilled record and with a record that kept
\* an id different from the one of its listing entry
C9_Witness ==
  /\ xpc = "done"
  /\ \E k \in 1..Len(peopleJson) :
       /\ OwnId(peopleJson[k].slug) = 0
       /\ peopleJson[k].post_id # 0
  /\ \E k \in 1..Len(peopleJson) :
       /\ OwnId(peopleJson[k].slug) # 0
       /\ \E i \in 1..Len(homepageEntries) :
            /\ homepageEntries[i].slug = peopleJson[k].slug
            /\ homepageEntries[i].post_id # peopleJson[k].post_id

\* ------------------------------------------------------------------------
\* Further properties of the Renderer (specification Spec)
\* ------------------------------------------------------------------------
\* the nav entries of a page, and whether each is rendered as active
NavEntries(html, entry) == { i \in 1..(Len(html) - 1) : html[i] = entry }
NavRendered(html) ==
  NavEntries(html, "<li class=\"about ") # {} /\ NavEntries(html, "<li class=\"submit ") # {}
AboutFlag(html) == \E i \in NavEntries(html, "<li class=\"about ") : html[i + 1] = "active"
SubmitFlag(html) == \E i \in NavEntries(html, "<li class=\"submit ") : html[i + 1] = "active"

\* C11: after a completed Renderer run every page carries the nav; the about
\* page has the about entry active and the submit entry inactive, the submit
\* page the reverse, and every other page (person, category, homepage) has
\* both inactive, so that no page has both active.
C11_NavFlags ==
  bpc = "done" =>
    \A q \in findHtmlFiles :
       /\ NavRendered(output[q])
       /\ AboutFlag(output[q]) <=> q = AboutPath
       /\ SubmitFlag(output[q]) <=> q = SubmitPath

\* a completed run that wrote person pages, category pages and the two
\* fixed pages with their own entry active
C11_Witness ==
  /\ bpc = "done"
  /\ Len(peopleJson) > 0
  /\ PersonPath(peopleJson[1].slug) \in DOMAIN output
  /\ AboutFlag(output[AboutPath]) /\ ~SubmitFlag(output[AboutPath])
  /\ SubmitFlag(output[SubmitPath]) /\ ~AboutFlag(output[SubmitPath])

\* a Store file or a template that build.js reads is not there
InputMissing == srcMissing \cap (StoreFiles \cup TemplateNames) # {}

\* C15: while a Store file or a template is missing, a Renderer run fails
\* at its reads, before the removal of the previous output tree: no step
\* changes the output tree, and a run that starts ends as failed.
C15_FailedLoadKeepsTree ==
  [][InputMissing => (output' = output /\ bpc' \in {bpc, "failed"})]_vars

\* a run has failed on a missing input and the previous tree is still there
C15_Witness ==
  /\ InputMissing
  /\ bpc = "failed" /\ runs > 0
  /\ output = OldTree({}) /\ DOMAIN output # {}
  /\ wiped = {}

\* ------------------------------------------------------------------------
\* Further properties of the Extractor (specification SpecExtract)
\* ------------------------------------------------------------------------
\* a region of html whose start marker is there and whose sibling end marker
\* is not found after it
SiblingMissing(html, start, end) ==
  /\ IndexOf(html, start, 1) # 0
  /\ IndexOf(html, end, IndexOf(html, start, 1) + Len(start)) = 0

\* the text from the end of the start marker up to the first closing
\* boundary that follows it
UpToClosing(html, start) ==
  LET after == IndexOf(html, start, 1) + Len(start)
  IN StripWs(SubSeq(html, after, IndexOf(html, DivClose, after) - 1))

\* some stretch of the text that follows the start marker
FollowsStart(value, html, start) ==
  LET after == IndexOf(html, start, 1) + Len(start)
  IN \E e \in (after - 1)..Len(html) : value = StripWs(SubSeq(html, after, e))

RegionFallback(value, html, start, end) ==
  SiblingMissing(html, start, end) =>
     LET after == IndexOf(html, start, 1) + Len(start)
     IN IF IndexOf(html, DivClose, after) # 0
        THEN value = UpToClosing(html, start)
        ELSE FollowsStart(value, html, start)

\* C12: for every record of the per-entity pass, the abstract and the
\* interview content of a document whose region starts but whose sibling
\* boundary is not found are the text from the end of the start marker up to
\* the first closing boundary after it, and never text before the marker.
C12_BoundaryFallback ==
  \A i \in 1..Len(people) :
     LET html == docs[people[i].slug].html
     IN /\ RegionFallback(people[i].abstract, html, AbstractStart, AbstractEnd)
        /\ RegionFallback(people[i].interview_content, html, PostStart, PostEnd)


\* the category documents that parseCategories reads
CategoryDocuments == SelectSeq(catDocs, LAMBDA d : d.isDirectory /\ d.slug # "feed" /\ d.hasIndex)

HasFilterEntry(slug) == slug \in DOMAIN filterBar /\ filterBar[slug] # << >>

\* the Store holds one CategoryRecord per category document, named by
\* nameOf, and the records are in slug order
CategoriesWritten(nameOf(_)) ==
  /\ Len(categoriesJson) = Len(CategoryDocuments)
  /\ \A k \in 1..Len(CategoryDocuments) :
        \E i \in 1..Len(categoriesJson) :
           /\ categoriesJson[i].slug = CategoryDocuments[k].slug
           /\ categoriesJson[i].display_name = nameOf(CategoryDocuments[k])
  /\ \A i, j \in 1..Len(categoriesJson) :
        i < j => SlugRank[categoriesJson[i].slug] < SlugRank[categoriesJson[j].slug]

FilterElseFeed(d) == IF HasFilterEntry(d.slug) THEN filterBar[d.slug] ELSE d.feedTitle

FilterElseFeedElseSlug(d) ==
  IF HasFilterEntry(d.slug) THEN filterBar[d.slug]
  ELSE IF d.feedTitle # << >> THEN d.feedTitle ELSE << d.slug >>

\* C14 as stated: every category document's record is named by the filter
\* region's non-empty entry for its slug, otherwise by the title of its feed
\* tag, and the Categories collection written is sorted by slug.
C14_FilterElseFeed ==
  storeWritten = StoreFiles => CategoriesWritten(FilterElseFeed)

\* C14 amended: every category document's record is named by the filter
\* region's non-empty entry for its slug, otherwise by the title of its feed
\* tag when the document has one, otherwise by the slug itself, and the
\* Categories collection written is sorted by slug.
C14_FilterElseFeedElseSlug ==
  storeWritten = StoreFiles => CategoriesWritten(FilterElseFeedElseSlug)

\* a directory read out of slug order and written in slug order, with a
\* category named by the filter region rather than by its feed title, and
\* one that has neither and is named by its slug
C14_Witness ==
  /\ storeWritten = StoreFiles
  /\ Len(categoriesJson) = 2
  /\ SlugRank[CategoryDocuments[1].slug] > SlugRank[CategoryDocuments[2].slug]
  /\ \E i, j \in 1..2 :
        /\ HasFilterEntry(categoriesJson[i].slug)
        /\ categoriesJson[i].display_name = filterBar[categoriesJson[i].slug]
        /\ \E k \in 1..2 : /\ CategoryDocuments[k].slug = categoriesJson[i].slug
                           /\ CategoryDocuments[k].feedTitle # << >>
        /\ ~HasFilterEntry(categoriesJson[j].slug)
        /\ \E k \in 1..2 : /\ CategoryDocuments[k].slug = categoriesJson[j].slug
                           /\ CategoryDocuments[k].feedTitle = << >>
        /\ categoriesJson[j].display_name = << categoriesJson[j].slug >>

\* ------------------------------------------------------------------------
\* extract.js followed by build.js (specification SpecPipeline): the
\* Renderer runs once over the Store that the Extractor has written
\* ------------------------------------------------------------------------
MaxListing == 3     \* fragments of the listing document of the pipeline

PipelineDocuments ==
  { d \in DocumentSets :
      \A sl \in DOMAIN d : d[sl].html = BodyNormal /\ d[sl].shortlink \in { << >>, <<4, 2>>, <<9, 9>> } }

PipelineCategories == CHOOSE src \in CategorySources : Len(src[1]) = 3

InitPipeline ==
  /\ indexExists = TRUE
  /\ listing \in SeqsUpTo(Fragments, MaxListing)
  /\ catDocs = PipelineCategories[1] /\ filterBar = PipelineCategories[2]
  /\ docs \in PipelineDocuments
  /\ xpc = "idle" /\ homepageEntries = << >> /\ people = << >> /\ categories = << >>
  /\ xi = 0 /\ xwarnings = 0 /\ storeWritten = {}
  /\ peopleJson = << >> /\ categoriesJson = << >>
  /\ templates = TemplateFiles(PersonBody) /\ srcMissing = StoreFiles
  /\ rootFiles = RootTree({}) /\ output = << >>
  /\ bpc = "idle" /\ runs = 0 /\ firstOutput = << >> /\ wiped = {}
  /\ VerifyInit /\ RenderIdle

NextPipeline ==
  \/ X_ParseHomepage \/ X_Person \/ X_Categories \/ X_Write
  \/ /\ xpc = "done" /\ runs = 0
     /\ \/ B_Load \/ B_Clean \/ B_CopyAssets \/ B_Persons \/ B_Homepage
        \/ B_Categories \/ B_About \/ B_Submit

SpecPipeline == InitPipeline /\ [][NextPipeline]_vars

\* the cards of the listing whose per-entity document exists
CardsWithDocument == SelectSeq(listing, LAMBDA f : f.card /\ DocExists(f.slug))

\* the slugs that the gallery cards of a page link to, in page order
CardSlugs(html) ==
  LET at == { i \in 1..(Len(html) - 2) : html[i] = "href=\"/" /\ html[i + 2] = "/\"" }
  IN [k \in 1..Cardinality(at) |->
        html[(CHOOSE i \in at : Cardinality({ j \in at : j <= i }) = k) + 1]]

\* C13: the People collection written is the listing's cards in document
\* order without those whose document is missing, and the homepage written
\* by the Renderer has one gallery card per PersonRecord in that same order.
C13_GalleryOrder ==
  /\ storeWritten = StoreFiles => SlugsOf(peopleJson) = SlugsOf(CardsWithDocument)
  /\ (bpc = "done" /\ runs = 1) =>
        /\ CardSlugs(output[HomePath]) = SlugsOf(CardsWithDocument)
        /\ CardIds(output[HomePath]) = [ i \in 1..Len(peopleJson) |-> NumText(peopleJson[i].post_id) ]

\* a listing of three cards, the middle one without document, extracted and
\* rendered to a gallery of the two other cards, in listing order
C13_Witness ==
  /\ bpc = "done" /\ runs = 1
  /\ Len(SelectSeq(listing, LAMBDA f : f.card)) = 3
  /\ ~DocExists(listing[2].slug)
  /\ Len(peopleJson) = 2
  /\ CardIds(output[HomePath]) = <<"99", "42">>

====
